---- MODULE Spec2Model ----
(***************************************************************************)
(* Daisyworld (src/main.rs): a grid of cells, each empty or holding a      *)
(* daisy; World::iterate produces the next generation by a reproduction    *)
(* pass followed by a death pass, both driven by rand::random::<f64>().    *)
(*                                                                         *)
(* Fixed-point units.  f64 quantities are integers over a denominator:     *)
(*   albedo, phenotype_volatility : 1/AlbDen                               *)
(*   random draws, death_rate     : 1/RDen                                 *)
(*   temperature                  : 1/TempDen Kelvin                       *)
(*   reproduce_prob               : 1/ProbDen                              *)
(* Cell indices are the source's, 0 .. size-1.  Option<T> is a sequence of *)
(* at most one element: None is <<>>, Some(d) is <<d>>.                    *)
(***************************************************************************)
EXTENDS Integers, Sequences, FiniteSets, TLC

VARIABLES
    world,     \* main's `world`: [dim, daisies, death_rate]
    timestep,  \* main's loop counter: iterate() calls made so far
    mid,       \* new_world.daisies between the two passes of the last iterate()
    log,       \* the rand::random calls of the last iterate(), in call order
    traced,    \* the uses of a draw for which log records the value returned
    call       \* SpecAccess / SpecDaisy: the last call made, with its result

vars == <<world, timestep, mid, log, traced, call>>

----------------------------------------------------------------------------
(* Bounds of the model *)

MaxDim == 3       \* each component of dim is in 0 .. MaxDim
MaxCells == 4     \* Spec: the world has at most MaxCells cells
MaxSteps == 2     \* Spec: iterate() calls per behaviour (main makes 30) ...
DeepCells == 3    \* ... on a world of at most DeepCells cells; one call on a larger one
TracedCells == 2  \* SpecDraws: the world has at most TracedCells cells
TracedSteps == 1  \* SpecDraws, SpecField: iterate() calls per behaviour
FieldDim == 2     \* SpecField: the world is FieldDim x FieldDim ...
FieldEmpty == 2   \* ... and has at most FieldEmpty empty cells
AccessCells == 6  \* SpecAccess: the world has at most AccessCells cells
IterCells == 4    \* SpecIter: the world has at most IterCells cells
SeedCells == 3    \* SpecPure: new_randomized is called for at most SeedCells cells

----------------------------------------------------------------------------
(* Units and the random source *)

AlbDen == 10000
RDen == 20
TempDen == 100

\* The values rand::random::<f64>() returns in the model, in 1/RDen:
\* 0.0, 0.1, 0.25, 0.5, 0.75 - each threshold the code compares a draw with
\* (0.1, 0.2, 0.25, 0.5, 0.75, death_rate) has a value on either side of it.
RVals == {0, 2, 5, 10, 15}

None == <<>>
Some(d) == <<d>>
IsSome(o) == o # None
Unwrap(o) == o[1]

----------------------------------------------------------------------------
(* Daisy *)

Daisy(a, v) == [albedo |-> a, phenotype_volatility |-> v]

black == Daisy(2500, 500)
white == Daisy(7500, 500)

\* fn reproduce_prob(&self, temperature): in 1/ProbDen, temperature in 1/TempDen K
threshold == 1750
optimal_temperature == 29550
ProbDen == threshold * threshold

Abs(x) == IF x < 0 THEN -x ELSE x

\* reproduce_prob() with the .abs() missing
reproduce_probNoAbs(self, temperature) ==
    IF temperature - optimal_temperature < threshold
    THEN ProbDen - (temperature - optimal_temperature) * (temperature - optimal_temperature)
    ELSE 0

reproduce_prob(self, temperature) ==
    IF Abs(temperature - optimal_temperature) < threshold
    THEN ProbDen - (temperature - optimal_temperature) * (temperature - optimal_temperature)
    ELSE 0

\* fn offspring(&self), r the value its rand::random::<f64>() returns
NewAlbedo(self, r) ==
    self.albedo + (self.phenotype_volatility * (2 * r - RDen)) \div (2 * RDen)

\* offspring() with the lower clamp missing
offspringNoLowerClamp(self, r) ==
    LET new_albedo == NewAlbedo(self, r)
    IN  Daisy(IF new_albedo > AlbDen THEN AlbDen ELSE new_albedo,
              self.phenotype_volatility)

\* offspring() with the volatility mutated like the albedo
offspringDriftingVolatility(self, r) ==
    LET new_albedo == NewAlbedo(self, r)
    IN  Daisy(IF new_albedo < 0 THEN 0
              ELSE IF new_albedo > AlbDen THEN AlbDen
              ELSE new_albedo,
              self.phenotype_volatility + (2 * r - RDen))

offspring(self, r) ==
    LET new_albedo == NewAlbedo(self, r)
    IN  Daisy(IF new_albedo < 0 THEN 0
              ELSE IF new_albedo > AlbDen THEN AlbDen
              ELSE new_albedo,
              self.phenotype_volatility)

----------------------------------------------------------------------------
(* World *)

World(dim, daisies, death_rate) ==
    [dim |-> dim, daisies |-> daisies, death_rate |-> death_rate]

size(self) == self.dim[1] * self.dim[2]

\* daisies.len()
Len0(daisies) == Cardinality(DOMAIN daisies)

\* a - b in usize overflows when a < b: a build with overflow checks (debug)
\* panics there, one without (release) wraps the difference modulo 2^64
Underflows(a, b) == a < b

\* i < a - b in usize where the call returns: when a < b the wrapped
\* difference is above every index of the model. No call iterate() or
\* temperature_field() makes overflows: they pass i < size, and
\* size >= dim.1 and size >= 1 when there is a cell.
LessThanDiff(i, a, b) == IF a >= b THEN i < a - b ELSE TRUE

at(self, i) ==
    IF (i >= 0) /\ (i < size(self)) THEN self.daisies[i] ELSE None

\* above() with dim.0 as the stride
aboveByDim0(self, i) ==
    IF i >= self.dim[1] THEN at(self, i - self.dim[1]) ELSE None

above(self, i) ==
    IF i >= self.dim[2] THEN at(self, i - self.dim[2]) ELSE None

below(self, i) ==
    IF LessThanDiff(i, size(self), self.dim[2]) THEN at(self, i + self.dim[2]) ELSE None

\* left_of() with a saturating subtraction for the guard: at(i.saturating_sub(1))
left_ofSaturating(self, i) ==
    at(self, IF i > 0 THEN i - 1 ELSE 0)

left_of(self, i) ==
    IF i > 0 THEN at(self, i - 1) ELSE None

right_of(self, i) ==
    IF LessThanDiff(i, size(self), 1) THEN at(self, i + 1) ELSE None

\* .map(|d| d.albedo).unwrap_or(0.5)
AlbedoOr(o) == IF IsSome(o) THEN Unwrap(o).albedo ELSE AlbDen \div 2

\* floor of the square root, 0 <= n < 2^31, by bisection on [lo, hi)
RECURSIVE Bisect(_, _, _)
Bisect(n, lo, hi) ==
    IF hi - lo <= 1 THEN lo
    ELSE LET m == (lo + hi) \div 2
         IN  IF m * m <= n THEN Bisect(n, m, hi) ELSE Bisect(n, lo, m)

ISqrt(n) == Bisect(n, 0, 46341)

\* fn temperature_field(&self), cell i.
\* The blended albedo, in 1/(8*AlbDen): q = 0.125 = 1/8 and 1 - 4q = 4/8.
LocalAlbedo8(self, i) ==
    4 * AlbedoOr(at(self, i)) +
        (AlbedoOr(above(self, i)) + AlbedoOr(right_of(self, i)) +
         AlbedoOr(left_of(self, i)) + AlbedoOr(below(self, i)))

\* S * L / SB = 917.0 * 1.0 / 5.67e-8 = 1.61728e10, here divided by 16 and by
\* 8*AlbDen so that SLoverSB * (8*AlbDen - albedo8) is (temperature/2)^4.
SLoverSB == 12635

\* (S * L / SB * (1.0 - albedo)).powf(0.25), in 1/TempDen K: the fourth root
\* as two square roots, sqrt((2*TempDen)^2 * sqrt((temperature/2)^4)).
Powf025(albedo8) ==
    ISqrt(4 * TempDen * TempDen * ISqrt(SLoverSB * (8 * AlbDen - albedo8)))

temperature_field(self) ==
    [i \in 0 .. (size(self) - 1) |-> Powf025(LocalAlbedo8(self, i))]

\* new_daisy_opt() with <= for <
new_daisy_optInclusive(r) ==
    IF 10 * r <= RDen THEN Some(black)
    ELSE IF 10 * r <= 2 * RDen THEN Some(white)
    ELSE None

\* fn new_daisy_opt(), r the value its rand::random::<f64>() returns
new_daisy_opt(r) ==
    IF 10 * r < RDen THEN Some(black)
    ELSE IF 10 * r < 2 * RDen THEN Some(white)
    ELSE None

\* The worlds new_randomized(dim, death_rate) can return: one draw per cell.
\* the cell count with + for *
NewLenSum(dim) == dim[1] + dim[2]

NewLen(dim) == dim[1] * dim[2]

\* lines 146-150 when the draw of cell i returns rs[i]
new_randomized_with(dim, death_rate, rs) ==
    World(dim, [i \in 0 .. (NewLen(dim) - 1) |-> new_daisy_opt(rs[i])], death_rate)

new_randomized(dim, death_rate) ==
    { new_randomized_with(dim, death_rate, rs) :
        rs \in [0 .. (NewLen(dim) - 1) -> RVals] }

----------------------------------------------------------------------------
(* World::iterate *)

\* One rand::random::<f64>() call as log holds it: what the value is used
\* for, the cell of the loop, and (when that use is traced) the value r
\* returned.
DrawKinds == {"neighbour", "accept", "offspring", "death"}

Draw(kind, i, r) == IF kind \in traced THEN <<kind, i, r>> ELSE <<kind, i>>

\* the reproduction loop with the `continue` of occupied cells missing
OccupantIgnored(self, new_world, i) == None

\* line 160: the cell whose occupancy decides whether cell i is skipped
Occupant(self, new_world, i) == self.daisies[i]

\* the reproduction loop reading the neighbours in new_world
ParentsInNewWorld(self, new_world) == new_world

\* lines 169-177: the world whose cells are the candidate parents
Parents(self, new_world) == self

\* the neighbour choice with right_of and left_of exchanged
ChooseNeighbourMirrored(self, i, r) ==
    IF 4 * r < RDen THEN above(self, i)
    ELSE IF 2 * r < RDen THEN left_of(self, i)
    ELSE IF 4 * r < 3 * RDen THEN below(self, i)
    ELSE right_of(self, i)

\* the neighbour choice with an empty or absent neighbour taken for a daisy
\* of the bare-ground albedo 0.5
ChooseNeighbourOrBare(self, i, r) ==
    LET neighbour == IF 4 * r < RDen THEN above(self, i)
                     ELSE IF 2 * r < RDen THEN right_of(self, i)
                     ELSE IF 4 * r < 3 * RDen THEN below(self, i)
                     ELSE left_of(self, i)
    IN  IF IsSome(neighbour) THEN neighbour ELSE Some(Daisy(AlbDen \div 2, 500))

\* lines 169-177: the neighbour the draw r chooses
ChooseNeighbour(self, i, r) ==
    IF 4 * r < RDen THEN above(self, i)
    ELSE IF 2 * r < RDen THEN right_of(self, i)
    ELSE IF 4 * r < 3 * RDen THEN below(self, i)
    ELSE left_of(self, i)

\* lines 179-182
Prob(neighbour, temp) ==
    IF IsSome(neighbour) THEN reproduce_prob(Unwrap(neighbour), temp) ELSE 0

\* line 184: rand::random::<f64>() < prob, prob in 1/ProbDen
Accepts(a, prob) == a * ProbDen < prob * RDen

\* line 185: neighbour.map(|d| d.offspring())
MapOffspring(neighbour, o) ==
    IF IsSome(neighbour) THEN Some(offspring(Unwrap(neighbour), o)) ELSE None

\* The index of the cell the draw r chooses as neighbour of cell i
ChosenIndex(self, i, r) ==
    IF 4 * r < RDen THEN i - self.dim[2]
    ELSE IF 2 * r < RDen THEN i + 1
    ELSE IF 4 * r < 3 * RDen THEN i + self.dim[2]
    ELSE i - 1

\* the body of the reproduction loop with the probability taken at the
\* temperature of the parent's cell
ReproduceCellParentTemp(self, temp, run, i, r, a, o) ==
    IF IsSome(Occupant(self, run.new, i)) THEN run
    ELSE LET neighbour == ChooseNeighbour(Parents(self, World(self.dim, run.new, self.death_rate)), i, r)
             drawn == run.log \o <<Draw("neighbour", i, r), Draw("accept", i, a)>>
             parentTemp == IF IsSome(neighbour)
                           THEN temperature_field(self)[ChosenIndex(self, i, r)] ELSE temp
         IN  IF Accepts(a, Prob(neighbour, parentTemp))
             THEN [new |-> [run.new EXCEPT ![i] = MapOffspring(neighbour, o)],
                   log |-> IF IsSome(neighbour)
                           THEN Append(drawn, Draw("offspring", i, o)) ELSE drawn]
             ELSE [new |-> run.new, log |-> drawn]

\* The body of the reproduction loop for cell i (lines 160-186) when the
\* draws return r (neighbour choice), a (accept) and o (inside offspring(),
\* made only if the offspring is accepted); temp is tfield[i]. A run is
\* [new |-> new_world.daisies so far, log |-> the draws so far].
ReproduceCell(self, temp, run, i, r, a, o) ==
    IF IsSome(Occupant(self, run.new, i)) THEN run
    ELSE LET neighbour == ChooseNeighbour(Parents(self, World(self.dim, run.new, self.death_rate)), i, r)
             drawn == run.log \o <<Draw("neighbour", i, r), Draw("accept", i, a)>>
         IN  IF Accepts(a, Prob(neighbour, temp))
             THEN [new |-> [run.new EXCEPT ![i] = MapOffspring(neighbour, o)],
                   log |-> IF IsSome(neighbour)
                           THEN Append(drawn, Draw("offspring", i, o)) ELSE drawn]
             ELSE [new |-> run.new, log |-> drawn]

\* The runs the body can make for cell i, one for each value its draws can
\* return; temp is tfield[i] (line 165)
ReproduceAt(self, temp, i, runs) ==
    { ReproduceCell(self, temp, run, i, r, a, o) :
        run \in runs, r \in RVals, a \in RVals, o \in RVals }

\* the death test with <= for <
DiesInclusive(r, death_rate) == r <= death_rate

\* line 191: rand::random::<f64>() < self.death_rate, both in 1/RDen
Dies(r, death_rate) == r < death_rate

\* the death loop testing the occupancy of self instead of new_world
DieCellOfSelf(self, run, i, r) ==
    IF IsSome(self.daisies[i])
    THEN [new |-> IF Dies(r, self.death_rate)
                  THEN [run.new EXCEPT ![i] = None] ELSE run.new,
          log |-> Append(run.log, Draw("death", i, r))]
    ELSE run

\* the death loop drawing before it tests the occupancy
DieCellDrawFirst(self, run, i, r) ==
    [new |-> IF IsSome(run.new[i]) /\ Dies(r, self.death_rate)
             THEN [run.new EXCEPT ![i] = None] ELSE run.new,
     log |-> Append(run.log, Draw("death", i, r))]

\* The body of the death loop for cell i (lines 191-193) when the draw
\* returns r; the draw is made only if the cell is occupied (&& is lazy).
DieCell(self, run, i, r) ==
    IF IsSome(run.new[i])
    THEN [new |-> IF Dies(r, self.death_rate)
                  THEN [run.new EXCEPT ![i] = None] ELSE run.new,
          log |-> Append(run.log, Draw("death", i, r))]
    ELSE run

\* for i in 0..self.size(), lines 159-187: the runs the loop can make from
\* cell i on, one for each value the draws can return
RECURSIVE ReproducePass(_, _, _, _)
ReproducePass(self, tfield, i, runs) ==
    IF i >= size(self) THEN runs
    ELSE ReproducePass(self, tfield, i + 1, ReproduceAt(self, tfield[i], i, runs))

\* for i in 0..self.size(), lines 190-194
RECURSIVE DeathPass(_, _, _)
DeathPass(self, i, runs) ==
    IF i >= size(self) THEN runs
    ELSE DeathPass(self, i + 1,
            { DieCell(self, run, i, r) : run \in runs, r \in RVals })

\* let mut new_world = self.clone()
Clone(self) == self.daisies

\* fn iterate(&self): the runs it can make: new_world.daisies between the
\* passes (mid), as returned (new), and the draws made (log).
iterate(self) ==
    LET born == ReproducePass(self, temperature_field(self), 0,
                              {[new |-> Clone(self), log |-> <<>>]})
    IN  UNION { { [mid |-> b.new, new |-> d.new, log |-> d.log]
                  : d \in DeathPass(self, 0, {b}) } : b \in born }

----------------------------------------------------------------------------
(* main: the world is built, then stepped *)

\* death_rate in 1/RDen: main's 0.3, 0.0, and a negative rate (-0.3):
\* new_randomized takes any f64
DeathRates == {-6, 0, 6}

NoCall == <<>>

Worlds(cells) ==
    UNION { new_randomized(dim, death_rate) :
              dim \in { d \in (0 .. MaxDim) \X (0 .. MaxDim) : d[1] * d[2] <= cells },
              death_rate \in DeathRates }

Init ==
    /\ world \in Worlds(MaxCells)
    /\ timestep = 0
    /\ mid = world.daisies
    /\ log = <<>>
    /\ traced = {}
    /\ call = NoCall

\* for timestep in 0..30, cut to the steps the bounds allow
StepLimit ==
    IF traced # {} THEN TracedSteps
    ELSE IF size(world) <= DeepCells THEN MaxSteps ELSE 1

\* world = world.iterate()
Iterate ==
    /\ timestep < StepLimit
    /\ \E run \in iterate(world) :
          /\ world' = World(world.dim, run.new, world.death_rate)
          /\ mid' = run.mid
          /\ log' = run.log
    /\ timestep' = timestep + 1
    /\ UNCHANGED <<traced, call>>

Next == Iterate

Spec == Init /\ [][Next]_vars

\* The same program with the random source traced, on small worlds
InitDraws ==
    /\ world \in Worlds(TracedCells)
    /\ timestep = 0
    /\ mid = world.daisies
    /\ log = <<>>
    /\ traced = DrawKinds
    /\ call = NoCall

SpecDraws == InitDraws /\ [][Next]_vars

\* The same program with the neighbour and accept draws traced, on the
\* square worlds of side FieldDim that have at most FieldEmpty empty cells,
\* with the death rates FieldDeathRates
FieldDeathRates == {0}

InitField ==
    /\ world \in UNION { new_randomized(<<FieldDim, FieldDim>>, death_rate) :
                            death_rate \in FieldDeathRates }
    /\ Cardinality({ i \in DOMAIN world.daisies : ~IsSome(world.daisies[i]) }) <= FieldEmpty
    /\ timestep = 0
    /\ mid = world.daisies
    /\ log = <<>>
    /\ traced = {"neighbour", "accept"}
    /\ call = NoCall

SpecField == InitField /\ [][Next]_vars

----------------------------------------------------------------------------
(* The accessors of World, called on the worlds new_randomized returns *)

InitAccess ==
    /\ world \in Worlds(AccessCells)
    /\ timestep = 0
    /\ mid = world.daisies
    /\ log = <<>>
    /\ traced = {}
    /\ call = NoCall

\* The indices an accessor is called with: every cell, and MaxDim past the end
Indices == 0 .. (size(world) + MaxDim)

Called(fn, i, result) == [fn |-> fn, i |-> i, result |-> result]

\* A call that did not return: the subtraction of its guard overflowed in a
\* build with overflow checks
Panicked(fn, i) == [fn |-> fn, i |-> i, panic |-> "attempt to subtract with overflow"]

CallAt ==
    /\ \E i \in Indices : call' = Called("at", i, at(world, i))
    /\ UNCHANGED <<world, timestep, mid, log, traced>>

CallAbove ==
    /\ \E i \in Indices : call' = Called("above", i, above(world, i))
    /\ UNCHANGED <<world, timestep, mid, log, traced>>

\* below(i): self.size() - self.dim.1 overflows when size < dim.1, and the
\* call then panics or returns, as the build decides
CallBelow ==
    /\ \E i \in Indices :
          \/ call' = Called("below", i, below(world, i))
          \/ /\ Underflows(size(world), world.dim[2])
             /\ call' = Panicked("below", i)
    /\ UNCHANGED <<world, timestep, mid, log, traced>>

CallLeftOf ==
    /\ \E i \in Indices : call' = Called("left_of", i, left_of(world, i))
    /\ UNCHANGED <<world, timestep, mid, log, traced>>

\* right_of(i): self.size() - 1 overflows when size = 0
CallRightOf ==
    /\ \E i \in Indices :
          \/ call' = Called("right_of", i, right_of(world, i))
          \/ /\ Underflows(size(world), 1)
             /\ call' = Panicked("right_of", i)
    /\ UNCHANGED <<world, timestep, mid, log, traced>>

NextAccess == CallAt \/ CallAbove \/ CallBelow \/ CallLeftOf \/ CallRightOf

SpecAccess == InitAccess /\ [][NextAccess]_vars

----------------------------------------------------------------------------
(* Daisy::offspring, called on a daisy and then on its descendants *)

\* Parent albedos (1/AlbDen) and volatilities beyond the two seed daisies,
\* values outside [0,1] included
AlbedoInputs == {-5000, 0, 100, 5000, 9900, 10000, 15000}
VolatilityInputs == {-40000, 0, 500, 40000}

Bred(self, r, result) == [fn |-> "offspring", self |-> self, r |-> r, result |-> result]

InitDaisy ==
    /\ world \in Worlds(0)
    /\ timestep = 0
    /\ mid = world.daisies
    /\ log = <<>>
    /\ traced = {}
    /\ \E self \in {black, white} \cup
                   {Daisy(a, v) : a \in AlbedoInputs, v \in VolatilityInputs} :
          call = [fn |-> "seed", result |-> self]

CallOffspring ==
    /\ \E r \in RVals : call' = Bred(call.result, r, offspring(call.result, r))
    /\ UNCHANGED <<world, timestep, mid, log, traced>>

NextDaisy == CallOffspring

SpecDaisy == InitDaisy /\ [][NextDaisy]_vars

----------------------------------------------------------------------------
(* World::new_randomized and Daisy::reproduce_prob as functions of their    *)
(* inputs: the draws of the cells, the temperature                          *)

\* The values a draw of new_randomized returns here: those of RVals and
\* 0.05, 0.15, 0.2, 0.95, so that 0.1 and 0.2 have a value on either side
\* and are values themselves
SeedDraws == RVals \cup {1, 3, 4, 19}

\* Temperatures in 1/TempDen K: the optimum 295.5, the band edges 278.0 and
\* 313.0, their neighbours at 0.01 K, and values well inside and outside
Temperatures ==
    {0, 26000, 27799, 27800, 27801, 28500, 29549, 29550, 29551,
     30500, 31299, 31300, 31301, 33000, 40000}

InitPure ==
    /\ world \in Worlds(0)
    /\ timestep = 0
    /\ mid = world.daisies
    /\ log = <<>>
    /\ traced = {}
    /\ call = NoCall

\* Both functions read nothing but their arguments: one call per behaviour
CallNewRandomized ==
    /\ call = NoCall
    /\ \E dim \in { d \in (0 .. MaxDim) \X (0 .. MaxDim) : d[1] * d[2] <= SeedCells },
          death_rate \in DeathRates :
          \E rs \in [0 .. (NewLen(dim) - 1) -> SeedDraws] :
             call' = [fn |-> "new_randomized", draws |-> rs,
                      result |-> new_randomized_with(dim, death_rate, rs)]
    /\ UNCHANGED <<world, timestep, mid, log, traced>>

CallReproduceProb ==
    /\ call = NoCall
    /\ \E self \in {black, white}, temperature \in Temperatures :
          call' = [fn |-> "reproduce_prob", self |-> self, temperature |-> temperature,
                   result |-> reproduce_prob(self, temperature)]
    /\ UNCHANGED <<world, timestep, mid, log, traced>>

NextPure == CallNewRandomized \/ CallReproduceProb

SpecPure == InitPure /\ [][NextPure]_vars

----------------------------------------------------------------------------
(* WorldIterator: World::iter() and the next() calls made on what it returns *)

\* WorldIterator{ pos: 0, world: &self }
iter(self) == [pos |-> 0, world |-> self]

\* next() reading the cell after advancing pos
nextAdvanceFirst(self) ==
    [self |-> [self EXCEPT !.pos = self.pos + 1],
     result |-> at(self.world, self.pos + 1)]

\* fn next(&mut self): the iterator after the call, and the value returned.
\* pos += 1 cannot overflow within the calls of the model.
next(self) ==
    [self |-> [self EXCEPT !.pos = self.pos + 1],
     result |-> at(self.world, self.pos)]

InitIter ==
    /\ world \in Worlds(IterCells)
    /\ timestep = 0
    /\ mid = world.daisies
    /\ log = <<>>
    /\ traced = {}
    /\ call = NoCall

\* call holds the iterator and the values next() has returned so far
CallIter ==
    /\ call = NoCall
    /\ call' = [fn |-> "iter", self |-> iter(world), yielded |-> <<>>]
    /\ UNCHANGED <<world, timestep, mid, log, traced>>

\* next() is called up to MaxDim times past the end of the grid, after it
\* returned None too
CallNext ==
    /\ call # NoCall
    /\ call.self.pos < size(world) + MaxDim
    /\ LET called == next(call.self)
       IN  call' = [fn |-> "next", self |-> called.self,
                    yielded |-> Append(call.yielded, called.result)]
    /\ UNCHANGED <<world, timestep, mid, log, traced>>

NextIter == CallIter \/ CallNext

SpecIter == InitIter /\ [][NextIter]_vars

----------------------------------------------------------------------------
(* Properties *)

Cells(self) == DOMAIN self.daisies
Kinds(l, i) == { l[k][1] : k \in { j \in DOMAIN l : l[j][2] = i } }
Stepped == timestep >= 1

\* C1: in every world reachable from new_randomized by iterate() steps the
\* number of cells is dim.0 * dim.1, and the cells are those of indices
\* 0 .. dim.0*dim.1 - 1.
C1_GridSize ==
    /\ Len0(world.daisies) = world.dim[1] * world.dim[2]
    /\ Cells(world) = 0 .. (world.dim[1] * world.dim[2] - 1)
    /\ Cells(world) = DOMAIN mid

C1_Witness ==
    /\ timestep >= 2
    /\ world.dim[1] # world.dim[2]
    /\ Len0(world.daisies) >= 2
    /\ \E i \in Cells(world) : IsSome(world.daisies[i])

\* Cell i is the first (last) cell of a row whichever component of dim is
\* taken as the width.
FirstOfRow(self, i) == i % self.dim[1] = 0 /\ i % self.dim[2] = 0
LastOfRow(self, i) ==
    i % self.dim[1] = self.dim[1] - 1 /\ i % self.dim[2] = self.dim[2] - 1

\* C2: the grid does not wrap: for a cell i, left_of(i) is absent when i is
\* the first cell of its row (i % width = 0) and right_of(i) is absent when
\* i is the last cell of its row (i % width = width - 1).
C2_NonWrapping ==
    (call # NoCall /\ call.i \in Cells(world)) =>
        /\ (call.fn = "left_of" /\ FirstOfRow(world, call.i)) => call.result = None
        /\ (call.fn = "right_of" /\ LastOfRow(world, call.i)) => call.result = None

\* C3 as claimed: with dim = (width, height), above(i) is the occupant of
\* cell i - width (absent if i < width) and below(i) that of cell i + width
\* (absent if i >= size - width), for every cell i.
Width(self) == self.dim[1]

C3_StrideIsWidth ==
    (call # NoCall /\ call.i \in Cells(world)) =>
        /\ call.fn = "above" =>
             call.result = IF call.i < Width(world) THEN None
                           ELSE world.daisies[call.i - Width(world)]
        /\ call.fn = "below" =>
             call.result = IF call.i >= size(world) - Width(world) THEN None
                           ELSE world.daisies[call.i + Width(world)]

\* C3, amended: above(i) is the occupant of cell i - dim.1 (absent if
\* i < dim.1) and below(i) that of cell i + dim.1 (absent if
\* i >= size - dim.1), for every cell i: the stride is the second component
\* of dim.
C3_StrideIsDim1 ==
    (call # NoCall /\ call.i \in Cells(world)) =>
        /\ call.fn = "above" =>
             call.result = IF call.i < world.dim[2] THEN None
                           ELSE world.daisies[call.i - world.dim[2]]
        /\ call.fn = "below" =>
             call.result = IF call.i >= size(world) - world.dim[2] THEN None
                           ELSE world.daisies[call.i + world.dim[2]]

C3_Witness ==
    /\ call # NoCall
    /\ call.fn = "above"
    /\ world.dim[1] > world.dim[2]
    /\ call.i >= world.dim[2]
    /\ call.i < world.dim[1]
    /\ IsSome(call.result)

\* The occupied neighbours of cell i in G, as the accessors give them
Neighbours(self, i) ==
    {above(self, i), right_of(self, i), below(self, i), left_of(self, i)} \ {None}

IsOffspringOf(cell, parents) ==
    \E p \in parents : \E o \in RVals : cell = Some(offspring(Unwrap(p), o))

\* C4: in one iterate() step from G, a daisy in a cell that was empty in G
\* (after the reproduction pass, and in G') is the offspring of a daisy that
\* occupied a neighbour of the cell in G, and a cell that was empty in G with
\* no occupied neighbour in G is empty after the reproduction pass and in G'.
C4_ParentsFromG ==
    [][\A i \in Cells(world) :
          ~IsSome(world.daisies[i]) =>
             /\ IsSome(mid'[i]) => IsOffspringOf(mid'[i], Neighbours(world, i))
             /\ IsSome(world'.daisies[i]) =>
                    IsOffspringOf(world'.daisies[i], Neighbours(world, i))
             /\ Neighbours(world, i) = {} =>
                    ~IsSome(mid'[i]) /\ ~IsSome(world'.daisies[i])]_vars

\* a step in which two cells were born and survived
C4_Witness ==
    /\ Stepped
    /\ \E i, j \in Cells(world) :
          /\ i # j
          /\ "offspring" \in Kinds(log, i) /\ IsSome(world.daisies[i])
          /\ "offspring" \in Kinds(log, j) /\ IsSome(world.daisies[j])

\* C5: in one iterate() step from G, a cell occupied in G holds the same
\* daisy after the reproduction pass, and in G' is empty or holds that daisy.
C5_OccupiedUntouched ==
    [][\A i \in Cells(world) :
          IsSome(world.daisies[i]) =>
             /\ mid'[i] = world.daisies[i]
             /\ world'.daisies[i] \in {None, world.daisies[i]}]_vars

\* a cell that was occupied in G (it drew for death only), next to another
\* occupied cell, and survived
C5_Witness ==
    /\ Stepped
    /\ \E i \in Cells(world) :
          /\ Kinds(log, i) = {"death"}
          /\ IsSome(world.daisies[i])
          /\ Neighbours(world, i) # {}

\* The draws of log for a use and a cell, and the cells of each kind
DrawsFor(l, kind, i) == { k \in DOMAIN l : l[k][1] = kind /\ l[k][2] = i }
Occupied(daisies) == { i \in DOMAIN daisies : IsSome(daisies[i]) }
Empty(daisies) == { i \in DOMAIN daisies : ~IsSome(daisies[i]) }

\* C6: after an iterate() step, every cell occupied after the reproduction
\* pass, newborn or not, has made exactly one death draw and is empty in G'
\* if that draw is < death_rate (and keeps its daisy otherwise); so if every
\* draw of the step returned 0.0 and death_rate > 0, G' is all empty.
C6_DeathAfterBirth ==
    Stepped =>
        /\ \A i \in Cells(world) :
              /\ Cardinality(DrawsFor(log, "death", i)) = IF IsSome(mid[i]) THEN 1 ELSE 0
              /\ \A k \in DrawsFor(log, "death", i) :
                    world.daisies[i] = IF log[k][3] < world.death_rate THEN None ELSE mid[i]
              /\ ~IsSome(mid[i]) => ~IsSome(world.daisies[i])
        /\ ((\A k \in DOMAIN log : log[k][3] = 0) /\ world.death_rate > 0)
              => Occupied(world.daisies) = {}

\* the 2x1 world [daisy, empty] with death_rate 0.3 and every draw 0.0: the
\* offspring born in cell 1 died in the same step
C6_Witness ==
    /\ Stepped
    /\ world.dim = <<2, 1>>
    /\ world.death_rate = 6
    /\ \A k \in DOMAIN log : log[k][3] = 0
    /\ DrawsFor(log, "offspring", 1) # {}
    /\ DrawsFor(log, "death", 1) # {}
    /\ IsSome(mid[0]) /\ IsSome(mid[1])
    /\ Occupied(world.daisies) = {}

\* C7: iterate() on an all-empty grid returns an all-empty grid.
C7_EmptyAbsorbing ==
    [][Occupied(world.daisies) = {} => Occupied(world'.daisies) = {}]_vars

\* a second step from an all-empty grid of two or more cells: every cell
\* drew for neighbour and accept and nothing else
C7_Witness ==
    /\ timestep >= 2
    /\ Len0(world.daisies) >= 2
    /\ Len(log) = 2 * Len0(world.daisies)
    /\ Occupied(world.daisies) = {}

\* The draws of the cells from i on, in cell order
RECURSIVE ReproductionDraws(_, _, _, _)
ReproductionDraws(G, after, i, withOffspring) ==
    IF i \notin DOMAIN G THEN <<>>
    ELSE (IF IsSome(G[i]) THEN <<>>
          ELSE <<<<"neighbour", i>>, <<"accept", i>>>> \o
               (IF withOffspring /\ IsSome(after[i]) THEN <<<<"offspring", i>>>> ELSE <<>>))
         \o ReproductionDraws(G, after, i + 1, withOffspring)

RECURSIVE DeathDraws(_, _)
DeathDraws(after, i) ==
    IF i \notin DOMAIN after THEN <<>>
    ELSE (IF IsSome(after[i]) THEN <<<<"death", i>>>> ELSE <<>>) \o DeathDraws(after, i + 1)

\* C8 as claimed: the draws of a step are, in cell order, a neighbour draw
\* and an accept draw for each cell empty in G, then a death draw for each
\* cell occupied after the reproduction pass, and no others: there are
\* 2 * (empty cells of G) + (occupied cells after reproduction) of them.
C8_NoOtherDraws ==
    [][/\ log' = ReproductionDraws(world.daisies, mid', 0, FALSE) \o DeathDraws(mid', 0)
       /\ Len(log') = 2 * Cardinality(Empty(world.daisies)) + Cardinality(Occupied(mid'))]_vars

\* C8, amended: the draws of a step are, in cell order, for each cell empty
\* in G a neighbour draw, an accept draw and, if the offspring is accepted,
\* the draw offspring() makes; then a death draw for each cell occupied
\* after the reproduction pass: 2 * (empty cells of G) + (cells born) +
\* (occupied cells after reproduction) draws.
C8_DrawOrder ==
    [][/\ log' = ReproductionDraws(world.daisies, mid', 0, TRUE) \o DeathDraws(mid', 0)
       /\ Len(log') = 2 * Cardinality(Empty(world.daisies))
                        + Cardinality(Occupied(mid') \ Occupied(world.daisies))
                        + Cardinality(Occupied(mid'))]_vars

\* a step with a birth in a cell that is not the last, from a grid with an
\* occupied cell and two empty ones
C8_Witness ==
    /\ Stepped
    /\ Len0(world.daisies) >= 3
    /\ \E i \in Cells(world) :
          /\ i + 1 \in Cells(world)
          /\ DrawsFor(log, "offspring", i) # {}
          /\ DrawsFor(log, "neighbour", i + 1) # {}
    /\ \E i \in Cells(world) : Kinds(log, i) = {"death"}

\* The neighbour the claim gives the draw r (1/RDen), by quartile
ByQuartile(self, i, r) ==
    CASE 0 <= 4 * r /\ 4 * r < RDen -> above(self, i)
      [] RDen <= 4 * r /\ 4 * r < 2 * RDen -> right_of(self, i)
      [] 2 * RDen <= 4 * r /\ 4 * r < 3 * RDen -> below(self, i)
      [] 3 * RDen <= 4 * r /\ 4 * r < 4 * RDen -> left_of(self, i)

\* C9: in one iterate() step from G, each cell i empty in G makes one
\* neighbour-choice draw r; the candidate parent is above(i), right_of(i),
\* below(i), left_of(i) of G for r in [0,0.25), [0.25,0.5), [0.5,0.75),
\* [0.75,1): a daisy born in i is the offspring of that neighbour, and if
\* that neighbour is empty or absent the cell stays empty and makes no
\* offspring draw, whatever the accept draw is.
C9_QuartileChoice ==
    [][\A i \in Empty(world.daisies) :
          /\ Cardinality(DrawsFor(log', "neighbour", i)) = 1
          /\ \A k \in DrawsFor(log', "neighbour", i) :
                LET chosen == ByQuartile(world, i, log'[k][3])
                IN  /\ ~IsSome(chosen) =>
                          /\ ~IsSome(mid'[i])
                          /\ ~IsSome(world'.daisies[i])
                          /\ DrawsFor(log', "offspring", i) = {}
                    /\ IsSome(mid'[i]) => IsOffspringOf(mid'[i], {chosen})]_vars

\* the 1x2 world [daisy, empty]: cell 1 born from its left_of neighbour on a
\* draw of 0.75, its above, right_of and below neighbours being absent
C9_Witness ==
    /\ Stepped
    /\ world.dim = <<1, 2>>
    /\ IsSome(mid[0]) /\ IsSome(mid[1])
    /\ \E k \in DrawsFor(log, "neighbour", 1) : log[k][3] = 15
    /\ DrawsFor(log, "offspring", 1) # {}

\* C10: offspring().albedo lies in [0,1] for every parent albedo, every
\* volatility and every draw; so does the albedo of the two seed daisies and
\* of every descendant of theirs.
C10_AlbedoClamped ==
    /\ call.fn = "offspring" => (0 <= call.result.albedo /\ call.result.albedo <= AlbDen)
    /\ (call.fn = "seed" /\ call.result \in {black, white}) =>
          (0 <= call.result.albedo /\ call.result.albedo <= AlbDen)

\* an offspring whose albedo was clamped to 0
C10_Witness ==
    /\ call.fn = "offspring"
    /\ call.self.phenotype_volatility = 500
    /\ call.self.albedo = 100
    /\ NewAlbedo(call.self, call.r) < 0
    /\ call.result.albedo = 0

\* C11: offspring() returns a daisy with its parent's volatility, whatever
\* the parent and the draw; and every daisy of every grid reachable from
\* new_randomized by iterate() steps, between the two passes included, has
\* volatility 0.05.
C11_VolatilityInherited ==
    /\ \A a \in AlbedoInputs, v \in VolatilityInputs, r \in RVals :
          offspring(Daisy(a, v), r).phenotype_volatility = v
    /\ \A i \in Cells(world) :
          /\ IsSome(world.daisies[i]) =>
                Unwrap(world.daisies[i]).phenotype_volatility = 500
          /\ IsSome(mid[i]) => Unwrap(mid[i]).phenotype_volatility = 500

\* a daisy of the second generation born in the grid: its albedo differs
\* from the seeds' and from every offspring of a seed
C11_Witness ==
    /\ timestep >= 2
    /\ \E i \in Cells(world) :
          /\ IsSome(world.daisies[i])
          /\ Unwrap(world.daisies[i]).albedo \notin
                {2500, 7500} \cup {offspring(p, o).albedo : p \in {black, white}, o \in RVals}

\* The daisies of the grid
DaisiesOf(self) == { self.daisies[i] : i \in Occupied(self.daisies) }

\* C12: the accessors are total: for every grid and every index i, i >= size
\* included, at(i), above(i), below(i), left_of(i) and right_of(i) return -
\* absent or a daisy of the grid, and at(i) absent when i >= size - and never
\* fail on the subtraction size - dim.1 or size - 1.
C12_AccessorsTotal ==
    call # NoCall =>
        /\ "panic" \notin DOMAIN call
        /\ "result" \in DOMAIN call
        /\ call.result \in {None} \cup DaisiesOf(world)
        /\ (call.fn = "at" /\ call.i >= size(world)) => call.result = None

\* C13: malformed construction parameters are rejected at construction: no
\* world that iterate() has stepped has a zero-area grid (dim.0 = 0 or
\* dim.1 = 0) or a negative death rate.
C13_MalformedRejected ==
    Stepped => (world.dim[1] > 0 /\ world.dim[2] > 0 /\ world.death_rate >= 0)

\* C14: new_randomized decides each cell from its own draw r alone: the cell
\* holds a black daisy (albedo 0.25) iff r < 0.1, a white daisy (albedo 0.75)
\* iff 0.1 <= r < 0.2, and is empty iff r >= 0.2; so if every draw returns
\* the same r >= 0.2 the grid is all empty.
C14_SeedByDraw ==
    (call # NoCall /\ call.fn = "new_randomized") =>
        /\ DOMAIN call.result.daisies = DOMAIN call.draws
        /\ \A i \in DOMAIN call.draws :
              LET r == call.draws[i]
                  cell == call.result.daisies[i]
              IN  /\ cell = Some(Daisy(2500, 500)) <=> 10 * r < RDen
                  /\ cell = Some(Daisy(7500, 500)) <=> (RDen <= 10 * r /\ 10 * r < 2 * RDen)
                  /\ cell = None <=> 2 * RDen <= 10 * r
        /\ (\E c \in SeedDraws :
               /\ 2 * RDen <= 10 * c
               /\ \A i \in DOMAIN call.draws : call.draws[i] = c)
              => Occupied(call.result.daisies) = {}

\* a grid of three cells seeded by the draws 0.2, 0.1 and 0.05: empty, white
\* and black
C14_Witness ==
    /\ call # NoCall
    /\ call.fn = "new_randomized"
    /\ call.result.dim = <<1, 3>>
    /\ call.draws = [i \in 0 .. 2 |-> IF i = 0 THEN 4 ELSE IF i = 1 THEN 2 ELSE 1]
    /\ call.result.daisies[0] = None
    /\ Unwrap(call.result.daisies[1]).albedo = 7500
    /\ Unwrap(call.result.daisies[2]).albedo = 2500

\* C15: reproduce_prob returns exactly 1.0 at the temperature 295.5, 0.0 at
\* every temperature with |temperature - 295.5| >= 17.5, the band edges 278.0
\* and 313.0 included, and strictly inside the band
\* 1 - ((temperature - 295.5)/17.5)^2, which lies in (0, 1]. In the model's
\* units (0.01 K, probability in 1/1750^2) that is 1750^2 - d^2 for
\* d = temperature - 29550.
C15_BoundaryLaw ==
    (call # NoCall /\ call.fn = "reproduce_prob") =>
        LET d == call.temperature - 29550
        IN  /\ d = 0 => call.result = ProbDen
            /\ Abs(d) >= 1750 => call.result = 0
            /\ Abs(d) < 1750 =>
                  /\ call.result = 1750 * 1750 - d * d
                  /\ 0 < call.result
                  /\ call.result <= ProbDen

\* the call at 312.99 K, 0.01 K inside the upper band edge
C15_Witness ==
    /\ call # NoCall
    /\ call.fn = "reproduce_prob"
    /\ call.temperature = 31299
    /\ call.result > 0

\* C16: on a 1x1 grid above(0), below(0), left_of(0) and right_of(0) are all
\* absent, whether the cell is occupied or empty.
C16_LoneCell ==
    (call # NoCall /\ world.dim = <<1, 1>> /\ call.i = 0
       /\ call.fn \in {"above", "below", "left_of", "right_of"}) =>
        ("result" \in DOMAIN call /\ call.result = None)

\* left_of(0) called on the 1x1 grid whose cell holds a daisy
C16_Witness ==
    /\ call # NoCall
    /\ world.dim = <<1, 1>>
    /\ IsSome(world.daisies[0])
    /\ call.fn = "left_of"
    /\ call.i = 0
    /\ "result" \in DOMAIN call

\* The value of the accept draw of cell i in the log l
AcceptDraw(l, i) == l[CHOOSE k \in DrawsFor(l, "accept", i) : TRUE][3]

\* C17: in one iterate() step from G the probability of filling the empty
\* cell i is the reproduce_prob of the neighbour its draw chooses at T[i],
\* T being the temperature field of G as it was before any birth or death of
\* the step: the cell is filled after the reproduction pass iff the chosen
\* neighbour is a daisy of G and the accept draw is below its
\* reproduce_prob(T[i]).
C17_TargetTemperature ==
    [][LET T == temperature_field(world)
       IN  \A i \in Empty(world.daisies) :
              /\ Cardinality(DrawsFor(log', "neighbour", i)) = 1
              /\ Cardinality(DrawsFor(log', "accept", i)) = 1
              /\ \A k \in DrawsFor(log', "neighbour", i) :
                    LET chosen == ByQuartile(world, i, log'[k][3])
                    IN  IsSome(mid'[i]) <=>
                           /\ IsSome(chosen)
                           /\ AcceptDraw(log', i) * ProbDen
                                < reproduce_prob(Unwrap(chosen), T[i]) * RDen]_vars

\* the 2x2 grid [empty, empty, black, black] after a step: cell 0 was born
\* from cell 2 with an albedo of at most 0.25, which takes the temperature of
\* cell 1 out of the band during the step, and cell 1 was born from cell 3
\* on an accept draw of 0.25: that is below the probability at the
\* temperature cell 1 had in G, and not below the probability (0) at the
\* temperature of cell 3
C17_Witness ==
    /\ Stepped
    /\ world.dim = <<2, 2>>
    /\ traced = {"neighbour", "accept"}
    /\ Kinds(log, 0) = {"neighbour", "accept", "offspring", "death"}
    /\ Kinds(log, 1) = {"neighbour", "accept", "offspring", "death"}
    /\ mid[2] = Some(black) /\ mid[3] = Some(black)
    /\ Kinds(log, 2) = {"death"} /\ Kinds(log, 3) = {"death"}
    /\ IsSome(mid[0]) /\ Unwrap(mid[0]).albedo <= 2500
    /\ \E k \in DrawsFor(log, "neighbour", 1) : log[k][3] = 10
    /\ AcceptDraw(log, 1) = 5
    /\ IsSome(mid[1])
    /\ reproduce_prob(black, temperature_field(World(world.dim, mid, 0))[3]) = 0

\* C18: with death_rate = 0 no daisy dies in an iterate() step: every cell
\* occupied in G holds the same daisy in G', every daisy born in the step
\* survives it, the occupied cells of G are occupied in G' and G' has no
\* more empty cells than G.
C18_NoDeathAtZero ==
    [][world.death_rate = 0 =>
          /\ \A i \in Occupied(world.daisies) : world'.daisies[i] = world.daisies[i]
          /\ world'.daisies = mid'
          /\ Occupied(world.daisies) \subseteq Occupied(world'.daisies)
          /\ Cardinality(Empty(world'.daisies)) <= Cardinality(Empty(world.daisies))]_vars

\* two steps at death_rate 0 in which a daisy drew 0.0 for death and
\* stayed, next to a cell that was filled
C18_Witness ==
    /\ timestep >= 2
    /\ world.death_rate = 0
    /\ \E i, j \in Cells(world) :
          /\ Kinds(log, i) = {"death"}
          /\ IsSome(world.daisies[i])
          /\ "offspring" \in Kinds(log, j)
          /\ IsSome(world.daisies[j])

\* The smallest index whose cell is empty or out of range
FirstGap(self) ==
    CHOOSE k \in 0 .. size(self) :
        /\ k \notin Occupied(self.daisies)
        /\ \A j \in 0 .. (k - 1) : j \in Occupied(self.daisies)

\* C19: the n-th next() call on the iterator World::iter() returns leaves
\* pos = n; with k the smallest index that is empty or out of range, the
\* calls 1 .. k yield the daisies of the cells 0 .. k-1 in order and call
\* k+1 returns None, so no daisy of a cell after an empty cell is yielded
\* before the first None.
C19_EndsAtFirstEmpty ==
    call # NoCall =>
        LET k == FirstGap(world)
            n == Len(call.yielded)
        IN  /\ call.self.pos = n
            /\ \A j \in 1 .. n :
                  /\ j <= k => call.yielded[j] = Some(Unwrap(world.daisies[j - 1]))
                  /\ j = k + 1 => call.yielded[j] = None

\* the grid [daisy, empty, daisy]: next() has returned the daisy of cell 0
\* and then None, cell 2 not being reached
C19_Witness ==
    /\ call # NoCall
    /\ Len0(world.daisies) = 3
    /\ IsSome(world.daisies[0]) /\ ~IsSome(world.daisies[1]) /\ IsSome(world.daisies[2])
    /\ call.yielded = <<world.daisies[0], None>>
    /\ call.self.pos = 2

====
